---- MODULE Spec2Model ----
(***************************************************************************)
(* builder_cpp: the incremental build engine of src/builder.rs (header     *)
(* discovery with a per-Target include cache, the staleness test, the      *)
(* compile loop and the link step) and the configuration gate of           *)
(* src/main.rs.                                                            *)
(*                                                                         *)
(* A file name is the tuple of its dot-separated components                *)
(* (<<"a", "c">> is a.c) and a path is <<directory, file name>>, so that   *)
(* the string operations of the code (split('.'), ends_with, push_str)     *)
(* are computed on the components.                                         *)
(*                                                                         *)
(* get_dependant_includes is recursive and need not return, so its call    *)
(* stack is part of the state and every call, loop iteration and return    *)
(* is a step. The source root is a flat directory; the creation of the     *)
(* object and build directories and the text of the compiler and linker    *)
(* commands are left out: the compiler and the linker are their exit       *)
(* status and, for a successful compile, the object written at the         *)
(* clock's time.                                                           *)
(***************************************************************************)
EXTENDS Integers, Sequences, FiniteSets, TLC

\* ------------------------------------------------------------------ bounds
\* call depth at which the recursion of get_dependant_includes exhausts the stack
MaxDepth == 4
\* last tick of the filesystem clock
MaxTime == 1
\* number of Targets constructed in one behaviour
MaxTargets == 2
\* longest target list of a configuration, longest argument list
MaxCfgTargets == 3
MaxArgs == 2
\* number of package strings in the configurations of the project and of
\* the repositories, taken together
MaxPackages == 3
\* call depth at which the recursion of parse_packages exhausts the stack
MaxCalls == 5
\* number of resolution runs in one behaviour
MaxRuns == 2
\* number of files in the source root when the directory itself is chosen
MaxEntries == 3

\* ------------------------------------------------------- the project tree
\* TargetConfig.src, TargetConfig.include_dir, BuildConfig.obj_dir
src_dir == "src"
include_dir == "include"
obj_dir == "obj"

\* the entries std::fs::read_dir yields for the source root, in its order
DirEntries == << <<"a", "c">>, <<"notes", "txt">>, <<"b", "cpp">> >>

\* the headers of the include root, as they are written in #include "..."
Headers == { <<"x", "h">>, <<"y", "h">> }

Path(dir, file) == <<dir, file>>

HdrPaths == { Path(include_dir, h) : h \in Headers }

\* the lists of #include "..." lines a file may hold: the headers of any
\* subset, in any order
IncludeLists ==
    { s \in UNION { [1..k -> Headers] : k \in 0..Cardinality(Headers) } :
        \A m, n \in 1..Len(s) : s[m] = s[n] => m = n }

\* sequences over S of length at most n
SeqsUpTo(S, n) == UNION { [1..k -> S] : k \in 0..n }

Range(s) == { s[n] : n \in 1..Len(s) }

VARIABLES
    \* filesystem
    content,        \* path -> the include strings of its #include "..." lines
    modified,       \* path -> mtime, -1 when the file does not exist
    now,            \* filesystem clock
    \* the Target under construction or being built
    srcs,           \* Target.srcs
    dependant_includes,   \* Target.dependant_includes (include string -> list)
    entry,          \* get_srcs: index of the next directory entry
    stack,          \* call stack of get_dependant_includes
    pc,             \* position of the process
    \* Target::build
    idx,            \* index into srcs of the build loop
    compiled,       \* sources handed to the compiler in this build, in order
    failed,         \* sources whose compile returned non-zero in this build
    links,          \* linker invocations of this build: their object lists
    exit_code,      \* process exit status, -1 while running
    \* observation
    reads,          \* path -> number of File::open calls of this Target
    targets_made,   \* Targets constructed so far
    obs,            \* what a build or discovery started from, what came before
    \* main
    targets,        \* the parsed configuration: TargetConfig.typ of each target
    args,           \* env::args()
    argi,           \* index of the next argument of main's loop
    performed,      \* the actions main has started, in order
    \* Package::parse_packages
    declares,       \* configuration -> the package strings of build.packages
    disk,           \* the staging tree .bld_cpp and the object directories
    calls,          \* call stack of parse_packages
    resolved,       \* the list the outermost parse_packages returned
    trail,          \* what the resolution runs have done so far
    \* the source root
    listing         \* what read_dir yields for the source root, in order

fsVars == <<content, modified, now>>
targetVars == <<srcs, dependant_includes, entry, stack>>
buildVars == <<idx, compiled, failed, links, exit_code>>
vars == <<content, modified, now, srcs, dependant_includes, entry, stack, pc,
          idx, compiled, failed, links, exit_code, reads, targets_made, obs,
          targets, args, argi, performed,
          declares, disk, calls, resolved, trail, listing>>
pkgVars == <<declares, disk, calls, resolved, trail>>
mainVars == <<targets, args, argi, performed>>
engineVars == <<content, modified, now, srcs, dependant_includes, entry, stack,
                idx, compiled, failed, links, reads, targets_made, obs>>

\* ------------------------------------------------------- pure functions
\* src/builder.rs:123: path ends with ".c" or ".cpp"
IsSource(file) ==
    /\ Len(file) >= 2
    /\ file[Len(file)] \in {"c", "cpp"}

\* src/builder.rs:142-147: the file name up to its first '.'
get_src_name(path) == path[2][1]

\* src/builder.rs:150-157: <obj_dir>/<name>.o
get_src_obj_name(src_name) == Path(obj_dir, <<src_name, "o">>)

\* src/builder.rs:170-173: <include_dir>/<include_substring>
IncludePath(include_substring) == Path(include_dir, include_substring)

\* src/builder.rs:184-198: the quote-include strings of a file, in file order
get_include_substrings(path) == content[path]

\* itertools unique(): the first occurrence of each element, in order
RECURSIVE Unique(_)
Unique(s) ==
    IF s = <<>> THEN <<>>
    ELSE LET front == Unique(SubSeq(s, 1, Len(s) - 1))
             last == s[Len(s)]
         IN IF last \in Range(front) THEN front ELSE Append(front, last)

\* HashMap::insert: the entry for key is created or overwritten
\* a variant that keeps the new entry only
Insert_replace(map, key, value) == [k \in {key} |-> value]

Insert(map, key, value) ==
    [k \in (DOMAIN map) \cup {key} |-> IF k = key THEN value ELSE map[k]]

\* src/builder.rs:203-210
Src_new(path, name, obj_name, includes) ==
    [path |-> path, name |-> name, obj_name |-> obj_name,
     dependant_includes |-> includes]

SrcPaths ==
    { Path(src_dir, DirEntries[n]) :
        n \in { m \in 1..Len(DirEntries) : IsSource(DirEntries[m]) } }
ObjPaths == { get_src_obj_name(get_src_name(p)) : p \in SrcPaths }
AllPaths == SrcPaths \cup HdrPaths \cup ObjPaths

\* the frame of one call of get_dependant_includes(path): lines 161-162
Frame(path) ==
    [path |-> path, subs |-> get_include_substrings(path), k |-> 1,
     result |-> <<>>]

Top == stack[Len(stack)]

\* ------------------------------------------------------------ staleness
Exists(path) == modified[path] >= 0

\* Src::to_build with <= for <: an object as old as its source is rebuilt
to_build_reason_le(src) ==
    IF ~Exists(src.obj_name)
    THEN "Object file does not exist"
    ELSE LET obj_modified == modified[src.obj_name]
             src_modified == modified[src.path]
         IN IF obj_modified <= src_modified
            THEN "Object file is older than source file"
            ELSE IF \E n \in 1..Len(src.dependant_includes) :
                        obj_modified <= modified[src.dependant_includes[n]]
                 THEN "Object file is older than dependant include file"
                 ELSE "Object file is up to date"

\* Src::to_build without the loop over the headers
to_build_reason_no_includes(src) ==
    IF ~Exists(src.obj_name)
    THEN "Object file does not exist"
    ELSE IF modified[src.obj_name] < modified[src.path]
         THEN "Object file is older than source file"
         ELSE "Object file is up to date"

\* src/builder.rs:212-232 Src::to_build: the first test that matches decides,
\* and names the message that is logged
to_build_reason(src) ==
    IF ~Exists(src.obj_name)
    THEN "Object file does not exist"
    ELSE LET obj_modified == modified[src.obj_name]
             src_modified == modified[src.path]
         IN IF obj_modified < src_modified
            THEN "Object file is older than source file"
            ELSE IF \E n \in 1..Len(src.dependant_includes) :
                        obj_modified < modified[src.dependant_includes[n]]
                 THEN "Object file is older than dependant include file"
                 ELSE "Object file is up to date"

to_build(src) == to_build_reason(src) # "Object file is up to date"

\* src/builder.rs:54-56 Target::link: the object paths of every source
link_objs == [n \in 1..Len(srcs) |-> srcs[n].obj_name]

\* ------------------------------------------- the include graph on disk
\* the header paths a file names in its quote-includes
Direct(path) == { IncludePath(h) : h \in Range(content[path]) }

RECURSIVE Closure(_)
Closure(R) ==
    LET more == R \cup UNION { Direct(p) : p \in R }
    IN IF more = R THEN R ELSE Closure(more)

\* every header transitively reachable from a file via quote-includes
Reachable(path) == Closure(Direct(path))

\* section 3 of the specification: the artifact exists and is no older than
\* the source and every transitive header
UpToDate(path) ==
    LET o == get_src_obj_name(get_src_name(path))
    IN /\ Exists(o)
       /\ modified[o] >= modified[path]
       /\ \A h \in Reachable(path) : modified[o] >= modified[h]

\* ------------------------------------------------------------ observation
\* obs records what the properties compare a build or a Target against:
\*   since the last build: the files touched, whether every source was up to
\*     date before the first touch, whether the last build's compiles and
\*     link all succeeded, its link's result and its linker invocations;
\*   of the running build (taken when it starts): the same, the sources that
\*     were stale and the mtimes;
\*   of the Target constructed before this one: its sources and verdicts, and
\*     whether the filesystem is as it was then.
Obs0 ==
    [touched |-> {}, fresh_before |-> FALSE,
     last_ok |-> FALSE, last_links |-> <<>>, link_ok |-> FALSE,
     b_touched |-> {}, b_fresh |-> FALSE, b_prev_ok |-> FALSE,
     b_prev_links |-> <<>>, b_stale |-> {}, b_modified |-> <<>>,
     prev_made |-> FALSE, prev_srcs |-> <<>>, prev_verdicts |-> <<>>,
     fs_same |-> FALSE]

\* --------------------------------------------------- the package resolver
\* the configuration files: the project's own and those of the repositories
Root == "root"
Repos == {"p1", "p2", "p3"}
Configs == {Root} \cup Repos

\* A whitespace-separated token of a package string: its '/'-separated
\* segments, and whether a comma is written in it.
Token(segs, comma) == [segs |-> segs, comma |-> comma]
EmptyString == Token(<<>>, FALSE)

\* "org/<repo>, main", and a string that lacks the branch
PackageString(repo) == << Token(<<"org", repo>>, TRUE), Token(<<"main">>, FALSE) >>
Malformed == << Token(<<"org", "p1">>, FALSE) >>

\* the lists build.packages may hold: up to n of the strings, none twice
PackageLists(strings, n) ==
    { l \in SeqsUpTo(strings, n) : \A i, j \in 1..Len(l) : l[i] = l[j] => i = j }

\* the targets of each repository's configuration file
Tgt(repo, name, typ, src, inc) ==
    [name |-> <<repo, name>>, typ |-> typ, src |-> src, include_dir |-> inc]

RepoTargets(c) ==
    CASE c = "p1" -> << Tgt(c, "lib", "dll", <<".", "src">>, <<"include">>),
                        Tgt(c, "demo", "exe", <<"demo">>, <<"include">>) >>
      [] c = "p2" -> << Tgt(c, "core", "dll", <<"src">>, <<".", "inc">>),
                        Tgt(c, "extra", "dll", <<"src", "", "extra">>, <<".", "inc">>) >>
      [] c = "p3" -> << Tgt(c, "tool", "exe", <<"src">>, <<"include">>),
                        Tgt(c, "lib", "dll", <<"src">>, <<"include">>) >>
      [] OTHER -> << Tgt(c, "app", "exe", <<"src">>, <<"include">>) >>

\* src/utils.rs:70-184 parse_config: the build table and the targets of a file
parse_config(c) ==
    [build |-> [compiler |-> <<"cc", c>>, build_dir |-> <<"build", c>>,
                obj_dir |-> <<"obj", c>>, packages |-> declares[c]],
     targets |-> RepoTargets(c)]

\* src/utils.rs:211-216: the BuildConfig a call starts with
EmptyBuildConfig ==
    [compiler |-> <<>>, build_dir |-> <<>>, obj_dir |-> <<>>, packages |-> <<>>]

\* str::replace("/<seg>/", "/") on a path: one pass from the left, matches
\* do not overlap, so of two adjacent matching segments the second stays
RECURSIVE ReplaceFrom(_, _, _)
ReplaceFrom(segs, i, seg) ==
    IF i >= Len(segs) THEN segs
    ELSE IF segs[i] = seg
         THEN ReplaceFrom(SubSeq(segs, 1, i - 1) \o SubSeq(segs, i + 1, Len(segs)),
                          i + 1, seg)
         ELSE ReplaceFrom(segs, i + 1, seg)

\* src/utils.rs:293: .replace("/./", "/").replace("//", "/")
Normalize(segs) == ReplaceFrom(ReplaceFrom(segs, 2, "."), 2, "")

\* src/utils.rs:231: "./.bld_cpp/sources/<name>/"
source_dir(name) == <<".", ".bld_cpp", "sources", name, "">>

\* src/utils.rs:295: "./.bld_cpp/includes/<name>"
staged_include_dir(name) == Normalize(<<".", ".bld_cpp", "includes", name>>)

\* src/utils.rs:289-295,320: the targets of a package that are kept, with
\* their source root and include root rewritten
\* a variant that rewrites the source root only
StagedTarget_keep_include(name, tgt) ==
    [tgt EXCEPT !.src = Normalize(source_dir(name) \o tgt.src)]

\* src/utils.rs:293-295: the target as it is pushed
StagedTarget(name, tgt) ==
    [tgt EXCEPT !.src = Normalize(source_dir(name) \o tgt.src),
                !.include_dir = staged_include_dir(name)]

Package_new(name, repo, branch, build_config, target_configs) ==
    [name |-> name, repo |-> repo, branch |-> branch,
     build_config |-> build_config, target_configs |-> target_configs]

\* src/utils.rs:206-220: the frame of one call of parse_packages(path)
Call(path) ==
    [path |-> path, list |-> parse_config(path).build.packages, k |-> 1,
     packages |-> <<>>, name |-> "", repo |-> EmptyString,
     branch |-> EmptyString, build_config |-> EmptyBuildConfig,
     target_configs |-> <<>>, phase |-> "fetch", t |-> 1,
     existed |-> FALSE]

Running == calls[Len(calls)]

\* the results of an external command: exit status 0, another exit status,
\* or the command could not be started
Outcomes == {"ok", "nonzero", "not started"}

\* trail: the resolution runs started, git clone invocations per staging
\* directory, the state of each package in the running resolution, and the
\* failures that have happened in it
Trail0 ==
    [runs |-> 0, clones |-> [r \in Repos |-> 0],
     state |-> [r \in Repos |-> "Undiscovered"], failures |-> {}]

\* a project without packages, on a disk where nothing has been staged
NoPackages ==
    /\ declares = [c \in Configs |-> <<>>]
    /\ disk = [dirs |-> {}, cloned |-> {}, copied |-> {}]
    /\ calls = <<>>
    /\ resolved = <<>>
    /\ trail = Trail0

\* ------------------------------------------------------------------- Init
\* A checkout that has never been built: sources and headers exist with the
\* clock's first timestamp, no object exists, and every file holds any list
\* of quote-includes of the headers.
Init ==
    /\ content \in [SrcPaths \cup HdrPaths -> IncludeLists]
    /\ modified = [p \in AllPaths |-> IF p \in ObjPaths THEN -1 ELSE 0]
    /\ now = 0
    /\ srcs = <<>>
    /\ dependant_includes = <<>>
    /\ entry = 1
    /\ stack = <<>>
    /\ pc = "start"
    /\ idx = 1
    /\ compiled = <<>>
    /\ failed = {}
    /\ links = <<>>
    /\ exit_code = -1
    /\ reads = [p \in SrcPaths \cup HdrPaths |-> 0]
    /\ targets_made = 0
    /\ obs = Obs0
    /\ listing = DirEntries
    /\ NoPackages
    /\ targets = <<"exe">>
    /\ args = <<"builder_cpp", "-b">>
    /\ argi = 1
    /\ performed = <<>>

\* ----------------------------------------------------- Target discovery
\* Target::new that keeps the include cache of the Target before it
Target_new_keep_cache ==
    /\ pc \in {"start", "ready", "done", "exit"}
    /\ targets_made < MaxTargets
    /\ srcs' = <<>>
    /\ entry' = 1
    /\ stack' = <<>>
    /\ pc' = "get_srcs"
    /\ reads' = [p \in DOMAIN reads |-> 0]
    /\ targets_made' = targets_made + 1
    /\ exit_code' = -1
    /\ obs' = IF pc = "start" THEN obs
              ELSE [obs EXCEPT !.prev_made = TRUE,
                               !.prev_srcs = srcs,
                               !.prev_verdicts =
                                   [n \in 1..Len(srcs) |-> to_build(srcs[n])],
                               !.fs_same = TRUE]
    /\ UNCHANGED <<fsVars, dependant_includes, idx, compiled, failed, links>>
    /\ UNCHANGED mainVars
    /\ UNCHANGED pkgVars
    /\ UNCHANGED listing

\* src/builder.rs:27-38 Target::new up to the call of get_srcs: a Target
\* starts with no sources and an empty include cache.
Target_new ==
    /\ pc \in {"start", "ready", "done", "exit"}
    /\ targets_made < MaxTargets
    /\ srcs' = <<>>
    /\ dependant_includes' = <<>>
    /\ entry' = 1
    /\ stack' = <<>>
    /\ pc' = "get_srcs"
    /\ reads' = [p \in DOMAIN reads |-> 0]
    /\ targets_made' = targets_made + 1
    /\ exit_code' = -1
    /\ obs' = IF pc = "start" THEN obs
              ELSE [obs EXCEPT !.prev_made = TRUE,
                               !.prev_srcs = srcs,
                               !.prev_verdicts =
                                   [n \in 1..Len(srcs) |-> to_build(srcs[n])],
                               !.fs_same = TRUE]
    /\ UNCHANGED <<fsVars, idx, compiled, failed, links>>
    /\ UNCHANGED mainVars
    /\ UNCHANGED pkgVars
    /\ UNCHANGED listing

\* src/builder.rs:117-129 get_srcs, one directory entry: a file that is no
\* .c/.cpp file is skipped; add_src (134-139) starts the resolution of a
\* source's includes.
get_srcs_entry ==
    /\ pc = "get_srcs"
    /\ entry <= Len(DirEntries)
    /\ entry' = entry + 1
    /\ IF IsSource(DirEntries[entry])
       THEN LET path == Path(src_dir, DirEntries[entry])
            IN /\ stack' = <<Frame(path)>>
               /\ reads' = [reads EXCEPT ![path] = @ + 1]
               /\ pc' = "resolve"
       ELSE UNCHANGED <<stack, reads, pc>>
    /\ UNCHANGED <<fsVars, srcs, dependant_includes, buildVars, targets_made, obs>>
    /\ UNCHANGED mainVars
    /\ UNCHANGED pkgVars
    /\ UNCHANGED listing

\* src/builder.rs:117,130,37: the directory is exhausted; Target::new returns
get_srcs_done ==
    /\ pc = "get_srcs"
    /\ entry > Len(DirEntries)
    /\ pc' = "ready"
    /\ UNCHANGED <<fsVars, targetVars, buildVars, reads, targets_made, obs>>
    /\ UNCHANGED mainVars
    /\ UNCHANGED pkgVars
    /\ UNCHANGED listing

\* a variant that takes the cached list of a key that is already there
include_cached_takes_entry ==
    /\ pc = "resolve"
    /\ Top.k <= Len(Top.subs)
    /\ Top.subs[Top.k] \in DOMAIN dependant_includes
    /\ stack' = [stack EXCEPT ![Len(stack)].k = @ + 1,
                              ![Len(stack)].result =
                                  @ \o dependant_includes[Top.subs[Top.k]]]
    /\ UNCHANGED <<fsVars, srcs, dependant_includes, entry, pc, buildVars,
                   reads, targets_made, obs>>
    /\ UNCHANGED mainVars
    /\ UNCHANGED pkgVars
    /\ UNCHANGED listing

\* src/builder.rs:166-169: the include string is a key of the cache: continue
include_cached ==
    /\ pc = "resolve"
    /\ Top.k <= Len(Top.subs)
    /\ Top.subs[Top.k] \in DOMAIN dependant_includes
    /\ stack' = [stack EXCEPT ![Len(stack)].k = @ + 1]
    /\ UNCHANGED <<fsVars, srcs, dependant_includes, entry, pc, buildVars,
                   reads, targets_made, obs>>
    /\ UNCHANGED mainVars
    /\ UNCHANGED pkgVars
    /\ UNCHANGED listing

\* src/builder.rs:170-174: the include string is no key of the cache: the
\* header is opened and resolved by a nested call. A call at depth MaxDepth
\* exhausts the stack and the process is killed.
include_recurse ==
    /\ pc = "resolve"
    /\ Top.k <= Len(Top.subs)
    /\ Top.subs[Top.k] \notin DOMAIN dependant_includes
    /\ LET include_path == IncludePath(Top.subs[Top.k])
       IN IF Len(stack) < MaxDepth
          THEN /\ stack' = Append(stack, Frame(include_path))
               /\ reads' = [reads EXCEPT ![include_path] = @ + 1]
               /\ UNCHANGED pc
          ELSE /\ pc' = "overflow"
               /\ UNCHANGED <<stack, reads>>
    /\ UNCHANGED <<fsVars, srcs, dependant_includes, entry, buildVars,
                   targets_made, obs>>
    /\ UNCHANGED mainVars
    /\ UNCHANGED pkgVars
    /\ UNCHANGED listing

\* src/builder.rs:163-165,178-179 the call returns; in the caller, 174-176:
\* the returned list and the header's path are appended to the caller's
\* result and the caller's result so far is stored under the include string;
\* in add_src, 137-138: the source is pushed with the returned list.
include_return ==
    /\ pc = "resolve"
    /\ Top.k > Len(Top.subs)
    /\ LET returned == IF Len(Top.subs) = 0 THEN Top.result ELSE Unique(Top.result)
           depth == Len(stack)
       IN IF depth = 1
          THEN LET name == get_src_name(Top.path)
               IN /\ srcs' = Append(srcs, Src_new(Top.path, name,
                                           get_src_obj_name(name), returned))
                  /\ stack' = <<>>
                  /\ pc' = "get_srcs"
                  /\ UNCHANGED dependant_includes
          ELSE LET caller == stack[depth - 1]
                   include_substring == caller.subs[caller.k]
                   result == (caller.result \o returned)
                                 \o <<IncludePath(include_substring)>>
               IN /\ stack' = [SubSeq(stack, 1, depth - 1) EXCEPT
                                  ![depth - 1].result = result,
                                  ![depth - 1].k = @ + 1]
                  /\ dependant_includes' =
                         Insert(dependant_includes, include_substring, result)
                  /\ UNCHANGED <<srcs, pc>>
    /\ UNCHANGED <<fsVars, entry, buildVars, reads, targets_made, obs>>
    /\ UNCHANGED mainVars
    /\ UNCHANGED pkgVars
    /\ UNCHANGED listing

\* --------------------------------------------------------- Target::build
\* src/builder.rs:40-41: build() is entered
build_start ==
    /\ pc = "ready"
    /\ pc' = "build"
    /\ idx' = 1
    /\ compiled' = <<>>
    /\ failed' = {}
    /\ links' = <<>>
    /\ obs' = [obs EXCEPT
                 !.b_touched = obs.touched,
                 !.b_fresh = obs.fresh_before,
                 !.b_prev_ok = obs.last_ok,
                 !.b_prev_links = obs.last_links,
                 !.b_stale = { n \in 1..Len(srcs) : to_build(srcs[n]) },
                 !.b_modified = modified,
                 !.touched = {},
                 !.fresh_before = FALSE,
                 !.fs_same = FALSE]
    /\ UNCHANGED <<fsVars, targetVars, exit_code, reads, targets_made>>
    /\ UNCHANGED mainVars
    /\ UNCHANGED pkgVars
    /\ UNCHANGED listing

\* Src::build that ends the process when the compiler fails
Src_build_fatal(n, ok) ==
    /\ compiled' = Append(compiled, n)
    /\ IF ok
       THEN /\ modified' = [modified EXCEPT ![srcs[n].obj_name] = now]
            /\ UNCHANGED <<failed, pc, exit_code>>
       ELSE /\ failed' = failed \cup {n}
            /\ pc' = "exit"
            /\ exit_code' = 1
            /\ UNCHANGED modified

\* Src::build whose compiler writes its output somewhere else than obj_name
Src_build_no_object(n, ok) ==
    /\ compiled' = Append(compiled, n)
    /\ failed' = IF ok THEN failed ELSE failed \cup {n}
    /\ UNCHANGED <<modified, pc, exit_code>>

\* src/builder.rs:234-269 Src::build: one compiler invocation; on success the
\* object is written, on failure the error is logged and the call returns
Src_build(n, ok) ==
    /\ compiled' = Append(compiled, n)
    /\ IF ok
       THEN /\ modified' = [modified EXCEPT ![srcs[n].obj_name] = now]
            /\ UNCHANGED failed
       ELSE /\ failed' = failed \cup {n}
            /\ UNCHANGED modified
    /\ UNCHANGED <<pc, exit_code>>

\* the loop of Target::build without the to_build test
build_src_always ==
    /\ pc = "build"
    /\ idx <= Len(srcs)
    /\ idx' = idx + 1
    /\ \E ok \in BOOLEAN : Src_build(idx, ok)
    /\ UNCHANGED <<content, now, targetVars, links, reads, targets_made, obs>>
    /\ UNCHANGED mainVars
    /\ UNCHANGED pkgVars
    /\ UNCHANGED listing

\* src/builder.rs:41-45: one iteration of the loop over the sources
build_src ==
    /\ pc = "build"
    /\ idx <= Len(srcs)
    /\ idx' = idx + 1
    /\ IF to_build(srcs[idx])
       THEN \E ok \in BOOLEAN : Src_build(idx, ok)
       ELSE UNCHANGED <<modified, compiled, failed, pc, exit_code>>
    /\ UNCHANGED <<content, now, targetVars, links, reads, targets_made, obs>>
    /\ UNCHANGED mainVars
    /\ UNCHANGED pkgVars
    /\ UNCHANGED listing

\* src/builder.rs:46,49-112 Target::link: one linker invocation over the
\* objects of every source; a non-zero result ends the process with status 1
link ==
    /\ pc = "build"
    /\ idx > Len(srcs)
    /\ links' = Append(links, link_objs)
    /\ \E ok \in BOOLEAN :
         /\ IF ok
            THEN pc' = "done" /\ UNCHANGED exit_code
            ELSE pc' = "exit" /\ exit_code' = 1
         /\ obs' = [obs EXCEPT !.last_ok = (ok /\ failed = {}),
                                !.link_ok = ok,
                                !.last_links = links']
    /\ UNCHANGED <<fsVars, targetVars, idx, compiled, failed, reads, targets_made>>
    /\ UNCHANGED mainVars
    /\ UNCHANGED pkgVars
    /\ UNCHANGED listing

\* ------------------------------------------------------------ environment
\* Between two runs of the program a source or a header is saved again: its
\* mtime advances to a new timestamp.
Touch(path) ==
    /\ pc \in {"done", "exit"}
    /\ now < MaxTime
    /\ now' = now + 1
    /\ modified' = [modified EXCEPT ![path] = now + 1]
    /\ obs' = [obs EXCEPT
                 !.touched = @ \cup {path},
                 !.fresh_before = IF obs.touched = {}
                                  THEN \A p \in SrcPaths : UpToDate(p)
                                  ELSE @,
                 !.fs_same = FALSE]
    /\ UNCHANGED <<content, targetVars, pc, buildVars, reads, targets_made>>
    /\ UNCHANGED mainVars
    /\ UNCHANGED pkgVars
    /\ UNCHANGED listing



Next ==
    \/ Target_new
    \/ get_srcs_entry
    \/ get_srcs_done
    \/ include_cached
    \/ include_recurse
    \/ include_return
    \/ build_start
    \/ build_src
    \/ link
    \/ \E path \in SrcPaths \cup HdrPaths : Touch(path)

Spec == Init /\ [][Next]_vars

\* -------------------------------------------------------------------- main
Options == {"-c", "-r", "-b", "-rb", "-h", "-v"}

\* src/main.rs:12-25: the number of targets of type exe
RECURSIVE num_exe(_)
num_exe(ts) ==
    IF ts = <<>> THEN 0
    ELSE num_exe(Tail(ts)) + (IF Head(ts) = "exe" THEN 1 ELSE 0)

\* main that refuses only a configuration without an exe target
Rejected_without_exe(ts) == Len(ts) = 0 \/ num_exe(ts) = 0

\* src/main.rs:14-16,27-30: the configurations main refuses
Rejected(ts) == Len(ts) = 0 \/ num_exe(ts) # 1

\* A configuration of up to MaxCfgTargets targets, each exe or dll (parse_config
\* admits no other type, src/utils.rs:176-179), and up to MaxArgs arguments
\* after the program's name.
InitMain ==
    /\ targets \in SeqsUpTo({"exe", "dll"}, MaxCfgTargets)
    /\ args \in { <<"builder_cpp">> \o a : a \in SeqsUpTo(Options, MaxArgs) }
    /\ argi = 1
    /\ performed = <<>>
    /\ pc = "main"
    /\ exit_code = -1
    /\ content = [p \in SrcPaths \cup HdrPaths |-> <<>>]
    /\ modified = [p \in AllPaths |-> IF p \in ObjPaths THEN -1 ELSE 0]
    /\ now = 0
    /\ srcs = <<>>
    /\ dependant_includes = <<>>
    /\ entry = 1
    /\ stack = <<>>
    /\ idx = 1
    /\ compiled = <<>>
    /\ failed = {}
    /\ links = <<>>
    /\ reads = [p \in SrcPaths \cup HdrPaths |-> 0]
    /\ targets_made = 0
    /\ obs = Obs0
    /\ listing = DirEntries
    /\ NoPackages

\* src/main.rs:12-35: the configuration is checked before the arguments are
\* read; with no argument the help is printed
main_check ==
    /\ pc = "main"
    /\ IF Rejected(targets)
       THEN /\ pc' = "exit"
            /\ exit_code' = 1
            /\ UNCHANGED performed
       ELSE /\ pc' = "args"
            /\ performed' = IF Len(args) = 1 THEN <<"help">> ELSE <<>>
            /\ UNCHANGED exit_code
    /\ UNCHANGED <<engineVars, targets, args, argi>>
    /\ UNCHANGED pkgVars
    /\ UNCHANGED listing

\* src/main.rs:37-63: what one argument starts. With -r the project is built
\* once more when the binary is missing.
ActionsOf(arg, bin_exists) ==
    CASE arg = "-c" -> <<"clean">>
      [] arg = "-r" -> (IF bin_exists THEN <<>> ELSE <<"build">>)
                          \o <<"build", "run">>
      [] arg = "-b" -> <<"build">>
      [] arg = "-rb" -> <<"clean", "build", "run">>
      [] arg = "-h" -> <<"help">>
      [] OTHER -> <<>>

\* src/main.rs:36-64: one iteration of the loop over the arguments
main_arg ==
    /\ pc = "args"
    /\ argi <= Len(args)
    /\ argi' = argi + 1
    /\ \E bin_exists \in BOOLEAN :
         performed' = performed \o ActionsOf(args[argi], bin_exists)
    /\ UNCHANGED <<engineVars, pc, exit_code, targets, args>>
    /\ UNCHANGED pkgVars
    /\ UNCHANGED listing

\* src/main.rs:65: main returns
main_return ==
    /\ pc = "args"
    /\ argi > Len(args)
    /\ pc' = "exit"
    /\ exit_code' = 0
    /\ UNCHANGED <<engineVars, targets, args, argi, performed>>
    /\ UNCHANGED pkgVars
    /\ UNCHANGED listing

NextMain ==
    \/ main_check
    \/ main_arg
    \/ main_return

SpecMain == InitMain /\ [][NextMain]_vars

\* ------------------------------------------------ Package::parse_packages
\* the repositories a configuration names in well-formed package strings
Declared(c) ==
    { declares[c][n][1].segs[2] :
        n \in { m \in 1..Len(declares[c]) : Len(declares[c][m]) = 2 } }

RECURSIVE DeclaredClosure(_)
DeclaredClosure(R) ==
    LET more == R \cup UNION { Declared(c) : c \in R }
    IN IF more = R THEN R ELSE DeclaredClosure(more)

\* the repositories the project depends on, directly or through others
Dependencies == DeclaredClosure(Declared(Root))

PackageStrings == { PackageString(r) : r \in Repos } \cup {Malformed}

\* Nothing has been staged. The project and the repositories declare up to
\* MaxPackages packages between them; a repository the project does not
\* depend on is never read and declares nothing.
InitPkg ==
    /\ \E root \in PackageLists(PackageStrings, MaxPackages) :
       \E p1 \in PackageLists(PackageStrings, MaxPackages - Len(root)) :
       \E p2 \in PackageLists(PackageStrings, MaxPackages - Len(root) - Len(p1)) :
       \E p3 \in PackageLists(PackageStrings,
                              MaxPackages - Len(root) - Len(p1) - Len(p2)) :
         declares = [c \in Configs |->
                       CASE c = "p1" -> p1 [] c = "p2" -> p2 [] c = "p3" -> p3
                         [] OTHER -> root]
    /\ \A r \in Repos \ Dependencies : declares[r] = <<>>
    /\ disk = [dirs |-> {}, cloned |-> {}, copied |-> {}]
    /\ calls = <<>>
    /\ resolved = <<>>
    /\ trail = Trail0
    /\ pc = "idle"
    /\ exit_code = -1
    /\ targets = <<"exe">>
    /\ args = <<"builder_cpp", "-b">>
    /\ argi = 1
    /\ performed = <<>>
    /\ content = [p \in SrcPaths \cup HdrPaths |-> <<>>]
    /\ modified = [p \in AllPaths |-> IF p \in ObjPaths THEN -1 ELSE 0]
    /\ now = 0
    /\ srcs = <<>>
    /\ dependant_includes = <<>>
    /\ entry = 1
    /\ stack = <<>>
    /\ idx = 1
    /\ compiled = <<>>
    /\ failed = {}
    /\ links = <<>>
    /\ reads = [p \in SrcPaths \cup HdrPaths |-> 0]
    /\ targets_made = 0
    /\ obs = Obs0
    /\ listing = DirEntries

notPkgVars == <<engineVars, mainVars, listing>>

\* the process ends with the given status after the given failure
Exit(status, failure) ==
    /\ pc' = "exit"
    /\ exit_code' = status
    /\ trail' = [trail EXCEPT !.failures = @ \cup failure]
    /\ UNCHANGED <<calls, resolved>>

\* the program is run: src/utils.rs:205-220, the outermost call of
\* parse_packages on the project's configuration
resolve_start ==
    /\ pc \in {"idle", "resolved", "exit"}
    /\ trail.runs < MaxRuns
    /\ pc' = "packages"
    /\ exit_code' = -1
    /\ calls' = <<Call(Root)>>
    /\ resolved' = <<>>
    /\ trail' = [trail EXCEPT !.runs = @ + 1,
                              !.state = [r \in Repos |-> "Undiscovered"],
                              !.failures = {}]
    /\ UNCHANGED <<declares, disk, notPkgVars>>

\* a variant that creates and clones whether or not the directory is there
pkg_fetch_always_clones ==
    /\ pc = "packages"
    /\ Running.phase = "fetch"
    /\ Running.k <= Len(Running.list)
    /\ LET deets == Running.list[Running.k]
       IN IF Len(deets) # 2
          THEN Exit(1, {"malformed"}) /\ UNCHANGED disk
          ELSE LET repo == Token(deets[1].segs, FALSE)
                   name == repo.segs[2]
                   named == [Running EXCEPT !.name = name, !.repo = repo,
                                            !.branch = deets[2]]
               IN /\ disk' = [disk EXCEPT !.dirs = @ \cup {source_dir(name)}]
                  /\ calls' = [calls EXCEPT ![Len(calls)] =
                                 [named EXCEPT !.phase = "clone", !.existed = FALSE]]
                  /\ trail' = [trail EXCEPT !.state[name] = "Cloning"]
                  /\ UNCHANGED <<pc, exit_code, resolved>>
    /\ UNCHANGED <<declares, notPkgVars>>

\* src/utils.rs:221-243: the next package string is split, the names are set
\* and, when the staging directory is missing, it is created with mkdir -p
pkg_fetch ==
    /\ pc = "packages"
    /\ Running.phase = "fetch"
    /\ Running.k <= Len(Running.list)
    /\ LET deets == Running.list[Running.k]
       IN IF Len(deets) # 2
          THEN Exit(1, {"malformed"}) /\ UNCHANGED disk
          ELSE LET repo == Token(deets[1].segs, FALSE)
                   branch == deets[2]
                   name == repo.segs[2]
                   named == [Running EXCEPT !.name = name, !.repo = repo,
                                            !.branch = branch]
               IN IF source_dir(name) \in disk.dirs
                  THEN /\ calls' = [calls EXCEPT ![Len(calls)] =
                                      [named EXCEPT !.phase = "configure",
                                                    !.existed = TRUE]]
                       /\ UNCHANGED <<disk, pc, exit_code, resolved, trail>>
                  ELSE \E mkdir \in Outcomes :
                         CASE mkdir = "ok" ->
                                /\ disk' = [disk EXCEPT !.dirs = @ \cup {source_dir(name)}]
                                /\ calls' = [calls EXCEPT ![Len(calls)] =
                                               [named EXCEPT !.phase = "clone",
                                                             !.existed = FALSE]]
                                /\ trail' = [trail EXCEPT !.state[name] = "Cloning"]
                                /\ UNCHANGED <<pc, exit_code, resolved>>
                           [] mkdir = "nonzero" ->
                                Exit(1, {"mkdir"}) /\ UNCHANGED disk
                           [] OTHER ->
                                Exit(101, {}) /\ UNCHANGED disk
    /\ UNCHANGED <<declares, notPkgVars>>

\* src/utils.rs:244-256: git clone into the staging directory
pkg_clone ==
    /\ pc = "packages"
    /\ Running.phase = "clone"
    /\ \E git \in Outcomes :
         CASE git = "ok" ->
                /\ disk' = [disk EXCEPT !.cloned = @ \cup {Running.name}]
                /\ calls' = [calls EXCEPT ![Len(calls)].phase = "configure"]
                /\ trail' = [trail EXCEPT !.clones[Running.name] = @ + 1]
                /\ UNCHANGED <<pc, exit_code, resolved>>
           [] git = "nonzero" ->
                /\ pc' = "exit"
                /\ exit_code' = 1
                /\ trail' = [trail EXCEPT !.clones[Running.name] = @ + 1,
                                          !.failures = @ \cup {"clone"}]
                /\ UNCHANGED <<disk, calls, resolved>>
           [] OTHER ->
                Exit(101, {}) /\ UNCHANGED disk
    /\ UNCHANGED <<declares, notPkgVars>>

\* src/utils.rs:258-270: the package's configuration is parsed; when it
\* declares packages, parse_packages is called on it. A call at depth
\* MaxCalls exhausts the stack.
pkg_configure ==
    /\ pc = "packages"
    /\ Running.phase = "configure"
    /\ IF Running.name \notin disk.cloned
       THEN Exit(1, {})
       ELSE /\ trail' = [trail EXCEPT !.state[Running.name] = "Configured"]
            /\ IF Len(parse_config(Running.name).build.packages) > 0
               THEN IF Len(calls) < MaxCalls
                    THEN /\ calls' = Append([calls EXCEPT ![Len(calls)].phase = "stage"],
                                            Call(Running.name))
                         /\ UNCHANGED <<pc, exit_code>>
                    ELSE /\ pc' = "overflow"
                         /\ UNCHANGED <<calls, exit_code>>
               ELSE /\ calls' = [calls EXCEPT ![Len(calls)].phase = "stage"]
                    /\ UNCHANGED <<pc, exit_code>>
            /\ UNCHANGED resolved
    /\ UNCHANGED <<declares, disk, notPkgVars>>

\* src/utils.rs:272-288: the package's build settings are taken, three of
\* them overwritten with those of the configuration this call reads, and the
\* object directory is created when missing; only a mkdir that could not be
\* started is detected
pkg_stage ==
    /\ pc = "packages"
    /\ Running.phase = "stage"
    /\ LET build_config_toml == parse_config(Running.path).build
           build_config == [parse_config(Running.name).build EXCEPT
                              !.compiler = build_config_toml.compiler,
                              !.build_dir = build_config_toml.build_dir,
                              !.obj_dir = build_config_toml.obj_dir]
           staging == [Running EXCEPT !.build_config = build_config,
                                      !.phase = "targets", !.t = 1]
       IN IF build_config.obj_dir \in disk.dirs
          THEN /\ calls' = [calls EXCEPT ![Len(calls)] = staging]
               /\ UNCHANGED <<disk, pc, exit_code, resolved, trail>>
          ELSE \E mkdir \in Outcomes :
                 CASE mkdir = "ok" ->
                        /\ disk' = [disk EXCEPT !.dirs = @ \cup {build_config.obj_dir}]
                        /\ calls' = [calls EXCEPT ![Len(calls)] = staging]
                        /\ UNCHANGED <<pc, exit_code, resolved, trail>>
                   [] mkdir = "nonzero" ->
                        /\ calls' = [calls EXCEPT ![Len(calls)] = staging]
                        /\ trail' = [trail EXCEPT !.failures = @ \cup {"mkdir"}]
                        /\ UNCHANGED <<disk, pc, exit_code, resolved>>
                   [] OTHER ->
                        Exit(1, {"mkdir"}) /\ UNCHANGED disk
    /\ UNCHANGED <<declares, notPkgVars>>

\* src/utils.rs:289-321: one target of the package. A target that is not a
\* shared library is skipped; the others are rewritten and, when the include
\* staging directory is missing, it is created and the package's include tree
\* copied into it; only a command that could not be started is detected
pkg_target ==
    /\ pc = "packages"
    /\ Running.phase = "targets"
    /\ Running.t <= Len(parse_config(Running.name).targets)
    /\ LET tgt == parse_config(Running.name).targets[Running.t]
           staged == StagedTarget(Running.name, tgt)
           skipped == [Running EXCEPT !.t = @ + 1]
           pushed == [Running EXCEPT !.t = @ + 1,
                                     !.target_configs = Append(@, staged)]
       IN IF tgt.typ # "dll"
          THEN /\ calls' = [calls EXCEPT ![Len(calls)] = skipped]
               /\ UNCHANGED <<disk, pc, exit_code, resolved, trail>>
          ELSE IF staged.include_dir \in disk.dirs
          THEN /\ calls' = [calls EXCEPT ![Len(calls)] = pushed]
               /\ UNCHANGED <<disk, pc, exit_code, resolved, trail>>
          ELSE \E mkdir \in Outcomes, cp \in Outcomes :
                 IF mkdir = "not started"
                 THEN Exit(1, {"mkdir"}) /\ UNCHANGED disk
                 ELSE LET made == IF mkdir = "ok"
                                  THEN [disk EXCEPT !.dirs = @ \cup {staged.include_dir}]
                                  ELSE disk
                          missed == IF mkdir = "ok" THEN {} ELSE {"mkdir"}
                      IN /\ mkdir = "nonzero" => cp # "ok"
                         /\ CASE cp = "ok" ->
                                   /\ disk' = [made EXCEPT !.copied = @ \cup {Running.name}]
                                   /\ calls' = [calls EXCEPT ![Len(calls)] = pushed]
                                   /\ trail' = [trail EXCEPT !.failures = @ \cup missed]
                                   /\ UNCHANGED <<pc, exit_code, resolved>>
                              [] cp = "nonzero" ->
                                   /\ disk' = made
                                   /\ calls' = [calls EXCEPT ![Len(calls)] = pushed]
                                   /\ trail' = [trail EXCEPT !.failures =
                                                  @ \cup missed \cup {"copy"}]
                                   /\ UNCHANGED <<pc, exit_code, resolved>>
                              [] OTHER ->
                                   /\ disk' = made
                                   /\ Exit(1, missed \cup {"copy"})
    /\ UNCHANGED <<declares, notPkgVars>>

\* src/utils.rs:321-322: the package's targets are done, the loop goes on to
\* the next package string
pkg_staged ==
    /\ pc = "packages"
    /\ Running.phase = "targets"
    /\ Running.t > Len(parse_config(Running.name).targets)
    /\ calls' = [calls EXCEPT ![Len(calls)].phase = "fetch",
                              ![Len(calls)].k = @ + 1]
    /\ trail' = [trail EXCEPT !.state[Running.name] = "Staged"]
    /\ UNCHANGED <<declares, disk, pc, exit_code, resolved, notPkgVars>>

\* src/utils.rs:324-325 and 267-269: after the last package string the call
\* pushes one record and returns its list, which a calling parse_packages
\* appends to its own
pkg_return ==
    /\ pc = "packages"
    /\ Running.phase = "fetch"
    /\ Running.k > Len(Running.list)
    /\ LET packages == Append(Running.packages,
                              Package_new(Running.name, Running.repo, Running.branch,
                                          Running.build_config, Running.target_configs))
           depth == Len(calls)
       IN IF depth = 1
          THEN /\ resolved' = packages
               /\ calls' = <<>>
               /\ pc' = "resolved"
          ELSE /\ calls' = [SubSeq(calls, 1, depth - 1) EXCEPT
                              ![depth - 1].packages = @ \o packages]
               /\ UNCHANGED <<resolved, pc>>
    /\ UNCHANGED <<declares, disk, exit_code, trail, notPkgVars>>

NextPkg ==
    \/ resolve_start
    \/ pkg_fetch
    \/ pkg_clone
    \/ pkg_configure
    \/ pkg_stage
    \/ pkg_target
    \/ pkg_staged
    \/ pkg_return

SpecPkg == InitPkg /\ [][NextPkg]_vars

\* ------------------------------------------- Target::new over any directory
\* file names a source root may hold
FileNames ==
    { <<"a", "c">>, <<"a", "cpp">>, <<"a", "b", "c">>, <<"b", "cpp">>,
      <<"notes", "txt">> }

\* what read_dir may yield: up to MaxEntries of the names, none twice
Listings ==
    { l \in SeqsUpTo(FileNames, MaxEntries) :
        \A i, j \in 1..Len(l) : l[i] = l[j] => i = j }

\* the paths of a listing's files
ListedPaths(l) == { Path(src_dir, l[n]) : n \in 1..Len(l) }

\* A Target is about to be constructed over a source root whose files hold
\* no #include line; the object directory is empty.
InitDir ==
    /\ listing \in Listings
    /\ content = [p \in ListedPaths(listing) |-> <<>>]
    /\ modified = [p \in ListedPaths(listing) |-> 0]
    /\ now = 0
    /\ srcs = <<>>
    /\ dependant_includes = <<>>
    /\ entry = 1
    /\ stack = <<>>
    /\ pc = "get_srcs"
    /\ idx = 1
    /\ compiled = <<>>
    /\ failed = {}
    /\ links = <<>>
    /\ exit_code = -1
    /\ reads = [p \in ListedPaths(listing) |-> 0]
    /\ targets_made = 1
    /\ obs = Obs0
    /\ NoPackages
    /\ targets = <<"exe">>
    /\ args = <<"builder_cpp", "-b">>
    /\ argi = 1
    /\ performed = <<>>

\* src/builder.rs:117-129, 134-139: one directory entry. A file that is no
\* .c/.cpp file is skipped; for the others add_src derives the name and the
\* object path, reads the file for its includes (184-198, it has none, so
\* get_dependant_includes returns the empty list) and pushes the record.
add_src ==
    /\ pc = "get_srcs"
    /\ entry <= Len(listing)
    /\ entry' = entry + 1
    /\ IF IsSource(listing[entry])
       THEN LET path == Path(src_dir, listing[entry])
                name == get_src_name(path)
                obj_name == get_src_obj_name(name)
            IN /\ srcs' = Append(srcs, Src_new(path, name, obj_name,
                                              get_include_substrings(path)))
               /\ reads' = [reads EXCEPT ![path] = @ + 1]
       ELSE UNCHANGED <<srcs, reads>>
    /\ UNCHANGED <<fsVars, dependant_includes, stack, pc, buildVars,
                   targets_made, obs, listing>>
    /\ UNCHANGED mainVars
    /\ UNCHANGED pkgVars

\* src/builder.rs:117,130,37: the directory is exhausted; Target::new returns
listing_done ==
    /\ pc = "get_srcs"
    /\ entry > Len(listing)
    /\ pc' = "ready"
    /\ UNCHANGED <<fsVars, targetVars, buildVars, reads, targets_made, obs,
                   listing>>
    /\ UNCHANGED mainVars
    /\ UNCHANGED pkgVars

NextDir ==
    \/ add_src
    \/ listing_done

SpecDir == InitDir /\ [][NextDir]_vars

\* =============================================================== properties
NoDuplicates(s) == \A m, n \in 1..Len(s) : s[m] = s[n] => m = n

Occurrences(x, s) == Cardinality({ n \in 1..Len(s) : s[n] = x })

\* the target has been discovered in full: Target::new has returned
Discovered == pc \in {"ready", "build", "done", "exit"}

\* the build loop and the link of the running build are over
BuildOver == pc \in {"done", "exit"}

\* C1: the header list stored for every discovered source, whatever its
\* position in the discovery order, contains every header transitively
\* reachable from the source via quote-includes, and lists no header twice.
C1_ListsHoldEveryReachableHeader ==
    \A n \in 1..Len(srcs) :
        /\ Reachable(srcs[n].path) \subseteq Range(srcs[n].dependant_includes)
        /\ NoDuplicates(srcs[n].dependant_includes)

\* C2: header resolution terminates on every include graph: a header whose
\* resolution is in progress is never entered a second time, and the
\* recursion never exhausts the stack.
C2_ResolutionIsBounded ==
    /\ pc # "overflow"
    /\ \A m, n \in 1..Len(stack) : stack[m].path = stack[n].path => m = n

AllSrcs == 1..Len(srcs)

Absent(s) == modified[s.obj_name] < 0

OlderThanSource(s) == modified[s.obj_name] < modified[s.path]

OlderThanHeader(s) ==
    \E h \in Range(s.dependant_includes) : modified[s.obj_name] < modified[h]

\* C3: to_build answers true iff the object is absent, or older than the
\* source, or older than some header of the source's header list; the tests
\* are made in that order and the first that matches decides; with an empty
\* header list only the object and the source count; an object exactly as
\* old as its source and headers is up to date.
C3_ToBuildVerdict ==
    Discovered =>
      \A n \in AllSrcs :
        LET s == srcs[n]
            reason == to_build_reason(s)
        IN /\ to_build(s) <=>
                (Absent(s) \/ OlderThanSource(s) \/ OlderThanHeader(s))
           /\ Absent(s) => reason = "Object file does not exist"
           /\ (~Absent(s) /\ OlderThanSource(s))
                => reason = "Object file is older than source file"
           /\ (~Absent(s) /\ ~OlderThanSource(s) /\ OlderThanHeader(s))
                => reason = "Object file is older than dependant include file"
           /\ s.dependant_includes = <<>>
                => (to_build(s) <=> (Absent(s) \/ OlderThanSource(s)))
           /\ ( /\ ~Absent(s)
                /\ modified[s.obj_name] = modified[s.path]
                /\ \A h \in Range(s.dependant_includes) :
                       modified[s.obj_name] = modified[h] )
                => ~to_build(s)

\* a discovered source whose object exists and is as new as the source but
\* older than one of its listed headers, and which is judged stale
C3_Witness ==
    /\ Discovered
    /\ \E n \in AllSrcs :
         /\ ~Absent(srcs[n])
         /\ ~OlderThanSource(srcs[n])
         /\ OlderThanHeader(srcs[n])
         /\ to_build(srcs[n])

\* C4: in one build() the sources handed to the compiler are exactly those
\* that were stale when build() was entered, each once; the linker is invoked
\* once, after the last compile attempt, with the object path of every source
\* of the target, stale or not.
C4_CompileStaleOnceThenLinkOnce ==
    pc \in {"build", "done", "exit"} =>
      /\ NoDuplicates(compiled)
      /\ \A n \in Range(compiled) : n < idx
      /\ \A n \in AllSrcs :
           n < idx => (n \in Range(compiled) <=> n \in obs.b_stale)
      /\ Len(links) <= 1
      /\ links # <<>> => BuildOver
      /\ BuildOver =>
           /\ idx > Len(srcs)
           /\ Range(compiled) = obs.b_stale
           /\ links = << [n \in AllSrcs |->
                            get_src_obj_name(get_src_name(srcs[n].path))] >>

\* a finished build of two sources of which only the second was stale: it
\* alone was compiled, and the link was made once over both objects
C4_Witness ==
    /\ pc = "done"
    /\ Len(srcs) = 2
    /\ obs.b_stale = {2}
    /\ compiled = <<2>>
    /\ Len(links[1]) = 2

\* C5: a failed compile does not end the build: the remaining stale sources
\* are compiled and the linker is invoked; a failed link ends the run with
\* exit status 1, a successful link does not.
C5_CompileFailureGoesOnLinkFailureExits ==
    /\ pc = "build" => exit_code = -1
    /\ (pc \in {"build", "done", "exit"} /\ failed # {}) =>
         \/ pc = "build"
         \/ /\ Range(compiled) = obs.b_stale
            /\ Len(links) = 1
    /\ BuildOver => IF obs.link_ok
                    THEN pc = "done" /\ exit_code = -1
                    ELSE pc = "exit" /\ exit_code = 1

\* the compile of the first source failed, the second was still compiled and
\* the link was made; the link failed and the process exited with status 1
C5_Witness ==
    /\ pc = "exit"
    /\ exit_code = 1
    /\ failed = {1}
    /\ compiled = <<1, 2>>
    /\ Len(links) = 1

\* the sources whose transitive include closure holds header h
Reaching(h) == { n \in AllSrcs : h \in Reachable(srcs[n].path) }

\* C6: when every source was up to date and then one header, reachable from
\* exactly one source, is touched, the next build compiles that source and no
\* other, and the mtime of every other object is what it was.
C6_TouchedHeaderRebuildsItsSourceOnly ==
    BuildOver =>
      \A h \in HdrPaths : \A k \in AllSrcs :
        (obs.b_fresh /\ obs.b_touched = {h} /\ Reaching(h) = {k}) =>
           /\ compiled = <<k>>
           /\ \A n \in AllSrcs \ {k} :
                modified[srcs[n].obj_name] = obs.b_modified[srcs[n].obj_name]

\* such a build has finished: both sources have headers, one header reached
\* by one source only was touched, and that source was compiled with success
C6_Witness ==
    /\ pc = "done"
    /\ Len(srcs) = 2
    /\ \A n \in AllSrcs : srcs[n].dependant_includes # <<>>
    /\ \E h \in HdrPaths : \E k \in AllSrcs :
         /\ obs.b_fresh
         /\ obs.b_touched = {h}
         /\ Reaching(h) = {k}
         /\ compiled = <<k>>
         /\ k \notin failed

\* C7: a build that follows a build whose compiles and link all succeeded,
\* with no file touched in between, compiles nothing and invokes the linker
\* once, over the object list of the build before.
C7_SecondBuildOnlyLinks ==
    (BuildOver /\ obs.b_prev_ok /\ obs.b_touched = {}) =>
       /\ compiled = <<>>
       /\ Len(links) = 1
       /\ links = obs.b_prev_links

\* a second build of two sources after a fully successful one has finished
C7_Witness ==
    /\ pc = "done"
    /\ obs.b_prev_ok
    /\ obs.b_touched = {}
    /\ Len(srcs) = 2
    /\ Len(obs.b_prev_links) = 1
    /\ compiled = <<>>
    /\ Len(links) = 1

\* the number of files that name header h in a quote-include, among the file
\* and the headers it reaches
IncludePaths(path, h) ==
    Cardinality({ q \in {path} \cup Reachable(path) : h \in Direct(q) })

C9_DiscoveryIsIdempotent ==
    (pc = "ready" /\ obs.prev_made /\ obs.fs_same) =>
       /\ srcs = obs.prev_srcs
       /\ [n \in AllSrcs |-> to_build(srcs[n])] = obs.prev_verdicts

\* a second Target is ready on an unchanged filesystem; its sources do not
\* all have the same list or the same verdict
C9_Witness ==
    /\ pc = "ready"
    /\ obs.prev_made
    /\ obs.fs_same
    /\ Len(srcs) = 2
    /\ srcs[2].dependant_includes # <<>>
    /\ to_build(srcs[1])
    /\ ~to_build(srcs[2])

\* the targets of type exe of the configuration
ExeTargets == { n \in 1..Len(targets) : targets[n] = "exe" }

\* C10: a configuration that does not hold exactly one exe target is refused
\* with exit status 1 before any action is started, whatever the arguments.
C10_ConfigRefusedBeforeAnyAction ==
    Cardinality(ExeTargets) # 1 =>
       /\ performed = <<>>
       /\ pc \in {"main", "exit"}
       /\ pc = "exit" => exit_code = 1

\* a configuration with two exe targets was refused although a build was asked
C10_Witness ==
    /\ Cardinality(ExeTargets) = 2
    /\ \E n \in 1..Len(args) : args[n] \in {"-b", "-rb", "-r", "-c"}
    /\ pc = "exit"
    /\ exit_code = 1
    /\ performed = <<>>


\* ------------------------------------------------------- the package resolver
\* a run of the resolver has returned its list
Returned == pc = "resolved"

\* the record a declared package is to have: its own name, repo and branch
RecordOf(rec, r) ==
    /\ rec.name = r
    /\ rec.repo = Token(<<"org", r>>, FALSE)
    /\ rec.branch = Token(<<"main">>, FALSE)

\* C11: the list parse_packages returns holds a record for each package the
\* project declares, directly or through a dependency, each with that
\* package's own name, repo and branch, and no record for anything else; a
\* project that declares no package gets the empty list.
C11_OneRecordPerDeclaredPackage ==
    Returned =>
        /\ \A r \in Dependencies :
             \E i \in 1..Len(resolved) : RecordOf(resolved[i], r)
        /\ \A i \in 1..Len(resolved) :
             \E r \in Dependencies : RecordOf(resolved[i], r)

\* C12: when package p declares package q, the record of q comes before the
\* record of p in the returned list.
C12_DependencyBeforeDependent ==
    Returned =>
        \A p \in Dependencies : \A q \in Declared(p) :
            \E i, j \in 1..Len(resolved) :
                /\ i < j
                /\ resolved[i].name = q
                /\ resolved[j].name = p

\* the package string being processed names a package whose staging
\* directory was there when the string was read
MetStaged == calls # <<>> /\ Running.phase # "fetch" /\ Running.existed

\* C13: over all runs git clone is invoked at most once per staging directory
\* and only when the directory was absent; a declared package whose staging
\* directory is already there is not cloned, its configuration is parsed
\* again and its shared-library targets are appended again.
C13_CloneAtMostOncePerStagingDirectory ==
    /\ \A r \in Repos : trail.clones[r] <= 1
    /\ (calls # <<>> /\ Running.phase = "clone") => ~Running.existed
    /\ (MetStaged /\ Running.phase = "configure") => pc # "exit"
    /\ (MetStaged /\ Running.phase = "targets"
            /\ Running.t > Len(parse_config(Running.name).targets)) =>
          \A n \in 1..Len(parse_config(Running.name).targets) :
              parse_config(Running.name).targets[n].typ = "dll" =>
                  \E m \in 1..Len(Running.target_configs) :
                      Running.target_configs[m].name =
                          parse_config(Running.name).targets[n].name

\* C14: resolution terminates for every finite set of configurations, also
\* when packages declare each other: parse_packages never recurses without
\* bound.
C14_ResolutionTerminates == pc # "overflow"

\* C15: every record of a package in the returned list has the compiler,
\* build_dir and obj_dir of the root configuration.
C15_RecordsHaveTheRootToolchain ==
    Returned =>
        \A i \in 1..Len(resolved) :
            resolved[i].name # "" =>
                /\ resolved[i].build_config.compiler = parse_config(Root).build.compiler
                /\ resolved[i].build_config.build_dir = parse_config(Root).build.build_dir
                /\ resolved[i].build_config.obj_dir = parse_config(Root).build.obj_dir

IsPrefix(p, q) == Len(p) <= Len(q) /\ SubSeq(q, 1, Len(p)) = p

\* the targets a repository's configuration declares with the given kind
TargetsOfKind(r, typ) ==
    { parse_config(r).targets[n].name :
        n \in { m \in 1..Len(parse_config(r).targets) :
                  parse_config(r).targets[m].typ = typ } }

\* C16: every target in a returned record is a shared library that a
\* dependency declares, no executable of a dependency is in a record, and
\* each target has its source root under ./.bld_cpp/sources/<name>/ and its
\* include root at ./.bld_cpp/includes/<name>, <name> being the package that
\* declares it.
C16_RecordsHoldStagedLibrariesOnly ==
    Returned =>
        \A i \in 1..Len(resolved) : \A m \in 1..Len(resolved[i].target_configs) :
            LET tgt == resolved[i].target_configs[m]
                name == tgt.name[1]
            IN /\ tgt.typ = "dll"
               /\ name \in Dependencies
               /\ tgt.name \in TargetsOfKind(name, "dll")
               /\ tgt.name \notin TargetsOfKind(name, "exe")
               /\ IsPrefix(<<".", ".bld_cpp", "sources", name>>, tgt.src)
               /\ Len(tgt.src) > 4
               /\ tgt.include_dir = <<".", ".bld_cpp", "includes", name>>

\* a list is returned for a dependency that declares an executable and a
\* library, and a record holds the library
C16_Witness ==
    /\ Returned
    /\ \E r \in Dependencies :
         /\ TargetsOfKind(r, "exe") # {}
         /\ \E i \in 1..Len(resolved) : \E m \in 1..Len(resolved[i].target_configs) :
              resolved[i].target_configs[m].name \in TargetsOfKind(r, "dll")

\* C17: a malformed package string, a failed creation of a staging, object
\* or include directory, a failed clone and a failed copy of the include
\* tree each end the run with a non-zero status and without a list.
C17_FailuresAreFatal ==
    trail.failures # {} => (pc = "exit" /\ exit_code # 0 /\ resolved = <<>>)

\* the steps a package may take within one run
Step(r, from, to) == trail.state[r] = from /\ trail'.state[r] = to

SameRun == trail'.runs = trail.runs

\* C18 as stated: within a run a package goes Undiscovered -> Cloning ->
\* Configured -> Staged, or from Undiscovered to Configured when its staging
\* directory is there, and takes no other step; once Staged it stays Staged.
C18_NoStepBackFromStaged ==
    [][SameRun =>
        \A r \in Repos :
            \/ trail'.state[r] = trail.state[r]
            \/ Step(r, "Undiscovered", "Cloning") /\ source_dir(r) \notin disk.dirs
            \/ Step(r, "Undiscovered", "Configured") /\ source_dir(r) \in disk.dirs
            \/ Step(r, "Cloning", "Configured")
            \/ Step(r, "Configured", "Staged")]_vars

\* C18, amended: as above, and a package that is Staged and is declared
\* again is configured again, without being cloned, and staged again; it is
\* never taken back to Cloning.
C18_PackageStateMachine ==
    [][SameRun =>
        \A r \in Repos :
            \/ trail'.state[r] = trail.state[r]
            \/ Step(r, "Undiscovered", "Cloning") /\ source_dir(r) \notin disk.dirs
            \/ Step(r, "Undiscovered", "Configured") /\ source_dir(r) \in disk.dirs
            \/ Step(r, "Cloning", "Configured")
            \/ Step(r, "Configured", "Staged")
            \/ Step(r, "Staged", "Configured") /\ source_dir(r) \in disk.dirs]_vars

\* a package whose library is already among the targets of a calling
\* parse_packages has been declared again in a nested call and is Configured
C18_Witness ==
    \E r \in Repos :
        /\ trail.state[r] = "Configured"
        /\ \E n \in 1..(Len(calls) - 1) : \E m \in 1..Len(calls[n].target_configs) :
             calls[n].target_configs[m].name[1] = r

\* ------------------------------------------------------- the include cache
\* C19: every entry of the include cache maps its key k to exactly the
\* headers reachable from k together with k's own path.
C19_CacheEntryIsTheClosureOfItsKey ==
    \A k \in DOMAIN dependant_includes :
        Range(dependant_includes[k]) =
            Reachable(IncludePath(k)) \cup {IncludePath(k)}

\* a step of the Target that exists, not the construction of a new one
SameTarget == targets_made' = targets_made

\* C20: in every step of one Target the key set of the include cache does
\* not shrink and no entry changes its value; after Target::new has returned
\* neither the cache nor any Src record changes.
C20_CacheGrowsRecordsAreFrozen ==
    [][SameTarget =>
        /\ DOMAIN dependant_includes \subseteq DOMAIN dependant_includes'
        /\ \A k \in DOMAIN dependant_includes :
               dependant_includes'[k] = dependant_includes[k]
        /\ Discovered =>
               /\ dependant_includes' = dependant_includes
               /\ srcs' = srcs]_vars

\* a Target with two cache entries and two sources has been built and linked
C20_Witness ==
    /\ pc = "done"
    /\ Cardinality(DOMAIN dependant_includes) = 2
    /\ Len(srcs) = 2
    /\ Len(compiled) > 0
    /\ Len(links) > 0

\* ------------------------------------------------------------- object paths
\* C21: no two distinct sources of a Target have the same object path.
C21_ObjectPathsAreUnique ==
    \A m, n \in 1..Len(srcs) :
        srcs[m].path # srcs[n].path => srcs[m].obj_name # srcs[n].obj_name

\* ------------------------------------------------------ spurious dependencies
StaleByHeader(src) ==
    to_build_reason(src) = "Object file is older than dependant include file"

\* C22: every path in a source's header list is a header the source reaches
\* through its includes, whatever was resolved for other sources before and
\* whatever the cache holds; so a source is stale because of a header only
\* when a header it reaches is newer than its object.
C22_NoSpuriousDependencies ==
    \A n \in 1..Len(srcs) :
        /\ Range(srcs[n].dependant_includes) \subseteq Reachable(srcs[n].path)
        /\ StaleByHeader(srcs[n]) =>
               \E h \in Reachable(srcs[n].path) :
                   modified[srcs[n].obj_name] < modified[h]

\* everything was up to date, a header that the first source lists and the
\* second does not reach was touched, and the build left the second source,
\* which has headers of its own, alone
C22_Witness ==
    /\ pc = "done"
    /\ Len(srcs) = 2
    /\ srcs[2].dependant_includes # <<>>
    /\ obs.b_fresh
    /\ 2 \notin Range(compiled)
    /\ \E h \in HdrPaths :
         /\ obs.b_touched = {h}
         /\ h \in Range(srcs[1].dependant_includes)
         /\ h \notin Reachable(srcs[2].path)

\* ------------------------------------------------- ownership, failed clones
\* C23: every target in a record of the returned list was declared by the
\* configuration of that record's package and has its source root under that
\* record's staging directory; no record holds a target of a sibling package.
C23_RecordsHoldTheirOwnTargets ==
    Returned =>
        \A i \in 1..Len(resolved) : \A m \in 1..Len(resolved[i].target_configs) :
            LET tgt == resolved[i].target_configs[m]
            IN /\ tgt.name[1] = resolved[i].name
               /\ IsPrefix(<<".", ".bld_cpp", "sources", resolved[i].name>>, tgt.src)

\* git clone was invoked for the repository and left no clone behind
CloneFailed(r) == trail.clones[r] > 0 /\ r \notin disk.cloned

\* C24: a package whose clone failed is not treated as already fetched by a
\* later run: when its package string is read again the clone is attempted
\* again, although the staging directory made before the failed clone exists.
C24_FailedCloneIsTriedAgain ==
    \A r \in Repos :
        (CloneFailed(r) /\ calls # <<>> /\ Running.name = r) =>
            (Running.phase = "clone" /\ ~Running.existed)

====
